---------------------------- MODULE Spec2Model ----------------------------
(***************************************************************************)
(* Model of monkit's Registry (registry.go): scopes, root/orphan span      *)
(* sets, and the trace watchers with their lock-free dispatch pointer,     *)
(* plus the HTTP propagation round trip exercised by the package's tests.  *)
(*                                                                         *)
(* Every goroutine is a thread with a program counter.  A Registry method  *)
(* is split into steps at each point where another goroutine can observe   *)
(* a difference: acquiring a mutex, the body of the critical section       *)
(* together with its release, an atomic load or store, a callback call.    *)
(***************************************************************************)
EXTENDS Integers, Sequences, FiniteSets, Bags, TLC

(***************************************************************************)
(* Universe                                                                *)
(***************************************************************************)
Threads == {"t1", "t2", "t3"}
NoThread == "none"

\* scope names passed to PackageNamed
Names == {"a", "b"}
\* heap cells available for Scope objects
MaxScopes == 3
\* nil *Scope
NilScope == 0

\* a Trace: its id and its sampled annotation
Trace(id, sampled) == [id |-> id, sampled |-> sampled]
NoTrace == Trace(0, FALSE)
\* a Span: its address, the full name of its Func, its id, its parent id (with
\* the flag ParentId reports) and its Trace
Span(addr, f, id, hasParent, parentId, trace) ==
  [addr |-> addr, f |-> f, id |-> id, hasParent |-> hasParent,
   parentId |-> parentId, trace |-> trace]
\* full names of the Funcs that own spans, in ascending string order
FuncNames == <<"a.f", "a.g", "client.test", "server.handler">>
\* the spans that start and end while the root and orphan sets are examined:
\* two spans of one Func with the same id, a third one of that Func with a
\* smaller id, and one of another Func
SpanPool ==
  {Span(1, "a.f", 1, FALSE, 0, NoTrace), Span(2, "a.f", 1, FALSE, 0, NoTrace),
   Span(3, "a.g", 0, FALSE, 0, NoTrace), Span(4, "a.f", 0, FALSE, 0, NoTrace)}
NoSpan == Span(0, "", 0, FALSE, 0, NoTrace)

VARIABLES
  \* ---- Registry fields ----
  traceWatcher,    \* atomic pointer to the published traceWatcherRef
  watcherMtx,      \* holder of watcherMtx, or NoThread
  watcherCounter,  \* next watcher id
  traceWatchers,   \* map id -> callback
  scopeMtx,        \* holder of scopeMtx, or NoThread
  scopes,          \* map name -> *Scope
  spanMtx,         \* holder of spanMtx, or NoThread
  spans,           \* set of root spans
  orphanMtx,       \* holder of orphanMtx, or NoThread
  orphans,         \* set of orphaned spans
  \* ---- heap ----
  scopeObjs,       \* allocated Scope objects: sequence of their names
  \* ---- goroutines ----
  pc,              \* position of each thread
  pnName,          \* PackageNamed: argument name
  pnS,             \* PackageNamed: local s
  scC,             \* Scopes: local c
  scIdx,           \* Scopes: scopes visited so far
  scBefore,        \* Scopes: what PackageNamed had returned when the call began
  lastOp,          \* the operation each thread completed last
  cbArg,           \* ObserveTraces: argument cb
  cbId,            \* ObserveTraces: local cbId; cancel: the captured cbId
  cancels,         \* cbIds whose cancel closure has been handed to a caller
  trArg,           \* observeTrace: argument t
  watcher,         \* observeTrace: the loaded traceWatcherRef
  calls,           \* observeTrace: callback invocations made, <<cb, trace>>
  \* ---- history ----
  returned,        \* pairs <<name, scope>> ever returned by PackageNamed
  published,       \* traceWatchers as it was at the last StorePointer
  pubAtBegin,      \* observeTrace: published, when the call began
  hist,            \* observeTrace: values traceWatchers held since the call began
  quiet,           \* observeTrace: watcherMtx was free at the call and ever since
  cancelRan,       \* cbIds for which some cancel call has run its delete
  cancelDone,      \* cbIds for which some cancel call has returned
  repeat,          \* cancel: this call's delete came after an earlier one's
  spArg,           \* rootSpanStart/rootSpanEnd/orphanedSpan/orphanEnd: argument s
  rsSpans,         \* RootSpans: the spans copied from r.spans into local spans
  rsOrphans,       \* RootSpans: the spans copied into local orphans
  rsSorted,        \* RootSpans: spans after append and sort.Sort
  rsIdx,           \* RootSpans: number of cb(s) calls made
  life,            \* what each span has called so far, "bad" once out of line
  walk,            \* AllSpans: the spans cb has been called with, in order
  fresh,           \* RootSpans: no root or orphan set changed since the call
  seen,            \* RootSpans: when on, the values of <<spans, orphans>>
                   \* during the call, in order
  \* ---- the HTTP round trip of the tests ----
  ppc,             \* how far the test's request has come
  mode,            \* which test runs: "propagation" or "forced"
  clientSpan,      \* the span active in the client's context, or NoSpan
  header,          \* the propagation header of the request in flight
  serverSpan,      \* the span TraceHandler opened for the request
  handlerSpan,     \* the span of the handler's mon.Task()
  grandParent,     \* the handler's local grandParent
  body             \* the response body the handler wrote

watchRegVars == <<traceWatcher, watcherMtx, watcherCounter, traceWatchers>>
spanRegVars == <<spanMtx, spans, orphanMtx, orphans>>
scopeLocals == <<scC, scIdx, scBefore>>
scopeVars == <<scopeMtx, scopes, scopeObjs, pnName, pnS, returned, scopeLocals>>
watchLocals == <<cbArg, cbId, trArg, watcher, calls>>
watchHistory == <<published, pubAtBegin, hist, quiet, cancelRan,
                  cancelDone, repeat>>
watchVars == <<watchRegVars, cancels, watchLocals, watchHistory>>
spanLocals == <<spArg, rsSpans, rsOrphans, rsSorted, rsIdx, walk>>
spanVars == <<spanRegVars, spanLocals, life, fresh, seen>>
propVars == <<ppc, mode, clientSpan, header, serverSpan, handlerSpan,
              grandParent, body>>
vars == <<pc, lastOp, scopeVars, watchVars, spanVars, propVars>>

(***************************************************************************)
(* NewRegistry                                                             *)
(***************************************************************************)
EmptyMap == [x \in {} |-> 0]
NilWatcher == [kind |-> "nil"]

NewRegistry ==
  /\ traceWatcher = NilWatcher
  /\ watcherMtx = NoThread
  /\ watcherCounter = 0
  /\ traceWatchers = EmptyMap
  /\ scopeMtx = NoThread
  /\ scopes = EmptyMap
  /\ spanMtx = NoThread
  /\ spans = {}
  /\ orphanMtx = NoThread
  /\ orphans = {}

InitScopeThreads ==
  /\ scopeObjs = <<>>
  /\ pnName = [t \in Threads |-> ""]
  /\ pnS = [t \in Threads |-> NilScope]
  /\ returned = {}
  /\ scC = [t \in Threads |-> <<>>]
  /\ scIdx = [t \in Threads |-> 0]
  /\ scBefore = [t \in Threads |-> {}]

InitWatchThreads ==
  /\ cbArg = [t \in Threads |-> ""]
  /\ cbId = [t \in Threads |-> -1]
  /\ cancels = {}
  /\ trArg = [t \in Threads |-> ""]
  /\ watcher = [t \in Threads |-> NilWatcher]
  /\ calls = [t \in Threads |-> <<>>]
  /\ published = EmptyMap
  /\ pubAtBegin = [t \in Threads |-> EmptyMap]
  /\ hist = [t \in Threads |-> {}]
  /\ quiet = [t \in Threads |-> FALSE]
  /\ cancelRan = {}
  /\ cancelDone = {}
  /\ repeat = [t \in Threads |-> FALSE]

InitSpanThreads ==
  /\ spArg = [t \in Threads |-> NoSpan]
  /\ rsSpans = [t \in Threads |-> {}]
  /\ rsOrphans = [t \in Threads |-> {}]
  /\ rsSorted = [t \in Threads |-> <<>>]
  /\ rsIdx = [t \in Threads |-> 0]
  /\ walk = [t \in Threads |-> <<>>]
  /\ life = [s \in SpanPool |-> "new"]
  /\ fresh = [t \in Threads |-> FALSE]

InitTest ==
  /\ ppc = "start"
  /\ mode = ""
  /\ clientSpan = NoSpan
  /\ header = <<>>
  /\ serverSpan = NoSpan
  /\ handlerSpan = NoSpan
  /\ grandParent = 0
  /\ body = <<>>

\* no history of the root and orphan sets is kept
NoHistory == [on |-> FALSE, trail |-> [t \in Threads |-> <<>>]]

InitState ==
  /\ NewRegistry
  /\ pc = [t \in Threads |-> "idle"]
  /\ lastOp = [t \in Threads |-> "none"]
  /\ InitScopeThreads
  /\ InitWatchThreads
  /\ InitSpanThreads
  /\ InitTest

Init ==
  /\ InitState
  /\ seen = NoHistory

(***************************************************************************)
(* PackageNamed                                                            *)
(***************************************************************************)
\* a caller enters PackageNamed(n)
PackageNamedCall(t, n) ==
  /\ pc[t] = "idle"
  /\ pc' = [pc EXCEPT ![t] = "pn_lock"]
  /\ pnName' = [pnName EXCEPT ![t] = n]
  /\ pnS' = [pnS EXCEPT ![t] = NilScope]
  /\ lastOp' = [lastOp EXCEPT ![t] = "none"]
  /\ UNCHANGED <<scopeMtx, scopes, scopeObjs, returned, scopeLocals, watchVars, spanVars,
                 propVars>>

\* a PackageNamed that forgets to take scopeMtx
PackageNamedLockMissing(t) ==
  /\ pc[t] = "pn_lock"
  /\ scopeMtx' = t
  /\ pc' = [pc EXCEPT ![t] = "pn_get"]
  /\ UNCHANGED <<lastOp, scopes, scopeObjs, pnName, pnS, returned,
                 scopeLocals, watchVars, spanVars, propVars>>

\* r.scopeMtx.Lock()
PackageNamedLock(t) ==
  /\ pc[t] = "pn_lock"
  /\ scopeMtx = NoThread
  /\ scopeMtx' = t
  /\ pc' = [pc EXCEPT ![t] = "pn_get"]
  /\ UNCHANGED <<lastOp, scopes, scopeObjs, pnName, pnS, returned,
                 scopeLocals, watchVars, spanVars, propVars>>

\* s, exists := r.scopes[name]; if exists { return s }
PackageNamedGet(t) ==
  /\ pc[t] = "pn_get"
  /\ IF pnName[t] \in DOMAIN scopes
       THEN /\ pnS' = [pnS EXCEPT ![t] = scopes[pnName[t]]]
            /\ pc' = [pc EXCEPT ![t] = "pn_ret"]
       ELSE /\ pnS' = pnS
            /\ pc' = [pc EXCEPT ![t] = "pn_new"]
  /\ UNCHANGED <<lastOp, scopeMtx, scopes, scopeObjs, pnName, returned,
                 scopeLocals, watchVars, spanVars, propVars>>

\* newScope(r, name): a fresh Scope object carrying the name
newScope(heap, name) == Append(heap, name)

\* s = newScope(r, name); r.scopes[name] = s
PackageNamedNew(t) ==
  /\ pc[t] = "pn_new"
  /\ Len(scopeObjs) < MaxScopes
  /\ scopeObjs' = newScope(scopeObjs, pnName[t])
  /\ pnS' = [pnS EXCEPT ![t] = Len(scopeObjs')]
  /\ scopes' = [n \in DOMAIN scopes \cup {pnName[t]} |->
                  IF n = pnName[t] THEN Len(scopeObjs') ELSE scopes[n]]
  /\ pc' = [pc EXCEPT ![t] = "pn_ret"]
  /\ UNCHANGED <<lastOp, scopeMtx, pnName, returned, scopeLocals, watchVars,
                 spanVars, propVars>>

\* return s, running the deferred r.scopeMtx.Unlock()
PackageNamedReturn(t) ==
  /\ pc[t] = "pn_ret"
  /\ scopeMtx' = NoThread
  /\ returned' = returned \cup {<<pnName[t], pnS[t]>>}
  /\ pc' = [pc EXCEPT ![t] = "idle"]
  /\ lastOp' = [lastOp EXCEPT ![t] = "PackageNamed"]
  /\ UNCHANGED <<scopes, scopeObjs, pnName, pnS, scopeLocals, watchVars,
                 spanVars, propVars>>

(***************************************************************************)
(* Scopes                                                                  *)
(***************************************************************************)
\* scope names in ascending string order
NameOrder == <<"a", "b">>
\* the name of a Scope object
NameOf(s) == scopeObjs[s]

\* a scopeSorter.Less that orders by descending name
scopeLessDescending(si, sj) ==
  \E i, j \in DOMAIN NameOrder :
    NameOrder[i] = NameOf(si) /\ NameOrder[j] = NameOf(sj) /\ i > j

\* scopeSorter.Less: s[i].name < s[j].name
scopeLess(si, sj) ==
  \E i, j \in DOMAIN NameOrder :
    NameOrder[i] = NameOf(si) /\ NameOrder[j] = NameOf(sj) /\ i < j

\* the sorted arrangements of the elements of c at the indices I
RECURSIVE scopeSortFrom(_, _)
scopeSortFrom(c, I) ==
  IF I = {} THEN {<<>>}
  ELSE UNION {{<<c[i]>> \o r : r \in scopeSortFrom(c, I \ {i})} :
                i \in {i \in I : \A j \in I : ~scopeLess(c[j], c[i])}}

\* sort.Sort(scopeSorter(c))
scopeSort(c) == scopeSortFrom(c, DOMAIN c)

\* every order in which `for _, s := range r.scopes` may yield the scopes
ScopeOrders(m) ==
  LET n == Cardinality(DOMAIN m)
      keys == {o \in [1..n -> DOMAIN m] :
                 \A i, j \in 1..n : o[i] = o[j] => i = j}
  IN  {[i \in 1..n |-> m[o[i]]] : o \in keys}

\* a caller enters Scopes(cb)
ScopesCall(t) ==
  /\ pc[t] = "idle"
  /\ pc' = [pc EXCEPT ![t] = "sc_lock"]
  /\ lastOp' = [lastOp EXCEPT ![t] = "none"]
  /\ scC' = [scC EXCEPT ![t] = <<>>]
  /\ scIdx' = [scIdx EXCEPT ![t] = 0]
  /\ scBefore' = [scBefore EXCEPT ![t] = returned]
  /\ UNCHANGED <<scopeMtx, scopes, scopeObjs, pnName, pnS, returned, watchVars,
                 spanVars, propVars>>

\* r.scopeMtx.Lock()
ScopesLock(t) ==
  /\ pc[t] = "sc_lock"
  /\ scopeMtx = NoThread
  /\ scopeMtx' = t
  /\ pc' = [pc EXCEPT ![t] = "sc_copy"]
  /\ UNCHANGED <<lastOp, scopes, scopeObjs, pnName, pnS, returned, scopeLocals,
                 watchVars, spanVars, propVars>>

\* a Scopes that keeps scopeMtx until it returns
ScopesCopyKeepLock(t) ==
  /\ pc[t] = "sc_copy"
  /\ \E c \in ScopeOrders(scopes) : scC' = [scC EXCEPT ![t] = c]
  /\ pc' = [pc EXCEPT ![t] = "sc_sort"]
  /\ UNCHANGED <<lastOp, scopeMtx, scopes, scopeObjs, pnName, pnS, returned,
                 scIdx, scBefore, watchVars, spanVars, propVars>>

\* the copy of r.scopes into c; r.scopeMtx.Unlock()
ScopesCopy(t) ==
  /\ pc[t] = "sc_copy"
  /\ \E c \in ScopeOrders(scopes) : scC' = [scC EXCEPT ![t] = c]
  /\ scopeMtx' = NoThread
  /\ pc' = [pc EXCEPT ![t] = "sc_sort"]
  /\ UNCHANGED <<lastOp, scopes, scopeObjs, pnName, pnS, returned, scIdx,
                 scBefore, watchVars, spanVars, propVars>>

\* sort.Sort(scopeSorter(c))
ScopesSort(t) ==
  /\ pc[t] = "sc_sort"
  /\ \E c \in scopeSort(scC[t]) : scC' = [scC EXCEPT ![t] = c]
  /\ IF scC[t] = <<>>
       THEN /\ pc' = [pc EXCEPT ![t] = "idle"]
            /\ lastOp' = [lastOp EXCEPT ![t] = "Scopes"]
       ELSE /\ pc' = [pc EXCEPT ![t] = "sc_visit"]
            /\ lastOp' = lastOp
  /\ UNCHANGED <<scopeMtx, scopes, scopeObjs, pnName, pnS, returned, scIdx,
                 scBefore, watchVars, spanVars, propVars>>

\* the next cb(s) of `for _, s := range c`
ScopesVisit(t) ==
  /\ pc[t] = "sc_visit"
  /\ scIdx' = [scIdx EXCEPT ![t] = @ + 1]
  /\ IF scIdx[t] + 1 = Len(scC[t])
       THEN /\ pc' = [pc EXCEPT ![t] = "idle"]
            /\ lastOp' = [lastOp EXCEPT ![t] = "Scopes"]
       ELSE UNCHANGED <<pc, lastOp>>
  /\ UNCHANGED <<scopeMtx, scopes, scopeObjs, pnName, pnS, returned, scC,
                 scBefore, watchVars, spanVars, propVars>>

\* the scopes cb has been called with so far, in order
ScopesVisited(t) == SubSeq(scC[t], 1, scIdx[t])

\* the goroutines that look scopes up and enumerate them
EnumThreads == {"t1", "t2"}

NextEnum ==
  \E t \in EnumThreads :
    \/ \E n \in Names : PackageNamedCall(t, n)
    \/ PackageNamedLock(t)
    \/ PackageNamedGet(t)
    \/ PackageNamedNew(t)
    \/ PackageNamedReturn(t)
    \/ ScopesCall(t)
    \/ ScopesLock(t)
    \/ ScopesCopy(t)
    \/ ScopesSort(t)
    \/ ScopesVisit(t)

SpecEnum == Init /\ [][NextEnum]_vars

\* the position of a scope's name in the order of names
NameRank(s) == CHOOSE i \in DOMAIN NameOrder : NameOrder[i] = NameOf(s)

(***************************************************************************)
(* C15: no operation removes or replaces an entry of the scopes map, and   *)
(* every Scopes call visits every Scope whose PackageNamed call completed  *)
(* before the Scopes call began, each exactly once, in ascending order of  *)
(* scope name.                                                             *)
(***************************************************************************)
ScopesPermanentInNameOrder ==
  /\ [][\A n \in DOMAIN scopes :
          n \in DOMAIN scopes' /\ scopes'[n] = scopes[n]]_vars
  /\ [](\A t \in Threads :
          (pc[t] = "idle" /\ lastOp[t] = "Scopes") =>
            /\ ScopesVisited(t) = scC[t]
            /\ \A r \in scBefore[t] :
                 Cardinality({i \in DOMAIN scC[t] : scC[t][i] = r[2]}) = 1
            /\ \A i, j \in DOMAIN scC[t] :
                 i < j => NameRank(scC[t][i]) < NameRank(scC[t][j]))

\* a Scopes call has returned; it visited the scope "a" before the scope "b",
\* which was created first, both returned by PackageNamed before it began
ScopesPermanentInNameOrderWitness ==
  \E t \in Threads :
    /\ pc[t] = "idle" /\ lastOp[t] = "Scopes"
    /\ scopeObjs = <<"b", "a">>
    /\ scBefore[t] = {<<"b", 1>>, <<"a", 2>>}
    /\ ScopesVisited(t) = <<2, 1>>

NextScopes ==
  \E t \in Threads :
    \/ \E n \in Names : PackageNamedCall(t, n)
    \/ PackageNamedLock(t)
    \/ PackageNamedGet(t)
    \/ PackageNamedNew(t)
    \/ PackageNamedReturn(t)

SpecScopes == Init /\ [][NextScopes]_vars

(***************************************************************************)
(* C1: for every name n, at most one Scope object is ever created for n,   *)
(* and every PackageNamed(n) call that has returned, from any thread,      *)
(* returned that one object (which is the one stored in r.scopes[n]).      *)
(***************************************************************************)
CreatedFor(n) == {i \in 1..Len(scopeObjs) : scopeObjs[i] = n}

PackageNamedUnique ==
  \A n \in Names :
    /\ Cardinality(CreatedFor(n)) <= 1
    /\ \A r \in returned :
         r[1] = n => /\ r[2] \in CreatedFor(n)
                     /\ n \in DOMAIN scopes
                     /\ scopes[n] = r[2]

\* one thread has returned from PackageNamed("a") and another is returning
\* from a later call for the same name with the same Scope, the only "a"
PackageNamedUniqueWitness ==
  /\ \E r \in returned : r[1] = "a"
  /\ Cardinality(CreatedFor("a")) = 1
  /\ \E t1, t2 \in Threads :
       /\ t1 # t2
       /\ pc[t1] = "idle" /\ pnName[t1] = "a" /\ pnS[t1] # NilScope
       /\ pc[t2] = "pn_ret" /\ pnName[t2] = "a" /\ pnS[t2] = pnS[t1]

(***************************************************************************)
(* Trace watchers                                                          *)
(***************************************************************************)
\* callbacks handed to ObserveTraces, and traces handed to observeTrace
Callbacks == {"cb1", "cb2"}
Traces == {"tr1", "tr2"}
\* ObserveTraces calls made in one run
MaxWatchers == 2
\* goroutines working on the watchers
WatchThreads == {"t1", "t2"}

\* helpers on sequences and maps
Range(f) == {f[x] : x \in DOMAIN f}
BagOf(s) ==
  [x \in Range(s) |-> Cardinality({i \in DOMAIN s : s[i] = x})]
\* every order in which `for _, cb := range m` may yield the values of m
RangeOrders(m) ==
  LET n == Cardinality(DOMAIN m)
      keys == {o \in [1..n -> DOMAIN m] : \A i, j \in 1..n : o[i] = o[j] => i = j}
  IN  {[i \in 1..n |-> m[o[i]]] : o \in keys}

\* what calling ref.watcher(t) calls, in order
Invoke(ref) ==
  CASE ref.kind = "nil" -> <<>>
    [] ref.kind = "one" -> <<ref.cb>>
    [] ref.kind = "many" -> ref.cbs

\* an updateWatcher whose combined closure starts at the second callback
updateWatcherSkipFirst(m) ==
  {CASE Len(cbs) = 0 -> NilWatcher
     [] Len(cbs) = 1 -> [kind |-> "one", cb |-> cbs[1]]
     [] OTHER -> [kind |-> "many", cbs |-> Tail(cbs)] : cbs \in RangeOrders(m)}

\* an updateWatcher that leaves the old pointer in place when no watcher is left
updateWatcherKeepLast(m) ==
  {CASE Len(cbs) = 0 -> traceWatcher
     [] Len(cbs) = 1 -> [kind |-> "one", cb |-> cbs[1]]
     [] OTHER -> [kind |-> "many", cbs |-> cbs] : cbs \in RangeOrders(m)}

\* updateWatcher: the values it may store in r.traceWatcher for the map m
updateWatcher(m) ==
  {CASE Len(cbs) = 0 -> NilWatcher
     [] Len(cbs) = 1 -> [kind |-> "one", cb |-> cbs[1]]
     [] OTHER -> [kind |-> "many", cbs |-> cbs] : cbs \in RangeOrders(m)}

\* threads inside observeTrace
Observing == {u \in Threads : pc[u] \in {"ob_load", "ob_call"}}
\* history kept when traceWatchers changes to m
NoteMap(m) ==
  hist' = [u \in Threads |-> IF u \in Observing THEN hist[u] \cup {m} ELSE hist[u]]
\* history kept when watcherMtx is taken
NoteLock == quiet' = [u \in Threads |-> FALSE]

\* the call has ended: the history kept for it is dropped
ForgetHistory(t) ==
  /\ pubAtBegin' = [pubAtBegin EXCEPT ![t] = EmptyMap]
  /\ hist' = [hist EXCEPT ![t] = {}]

\* a thread leaves its last observeTrace call behind
ForgetObserve(t) ==
  /\ trArg' = [trArg EXCEPT ![t] = ""]
  /\ watcher' = [watcher EXCEPT ![t] = NilWatcher]
  /\ calls' = [calls EXCEPT ![t] = <<>>]
  /\ quiet' = [quiet EXCEPT ![t] = FALSE]

\* ---- observeTrace ----
ObserveTraceCall(t, tr) ==
  /\ pc[t] = "idle"
  /\ pc' = [pc EXCEPT ![t] = "ob_load"]
  /\ lastOp' = [lastOp EXCEPT ![t] = "none"]
  /\ trArg' = [trArg EXCEPT ![t] = tr]
  /\ watcher' = [watcher EXCEPT ![t] = NilWatcher]
  /\ calls' = [calls EXCEPT ![t] = <<>>]
  /\ pubAtBegin' = [pubAtBegin EXCEPT ![t] = published]
  /\ hist' = [hist EXCEPT ![t] = {traceWatchers}]
  /\ quiet' = [quiet EXCEPT ![t] = (watcherMtx = NoThread)]
  /\ cbArg' = [cbArg EXCEPT ![t] = ""]
  /\ cbId' = [cbId EXCEPT ![t] = -1]
  /\ repeat' = [repeat EXCEPT ![t] = FALSE]
  /\ UNCHANGED <<watchRegVars, cancels, published, cancelRan, cancelDone,
                 scopeVars, spanVars, propVars>>

\* an observeTrace that takes watcherMtx around its load
ObserveTraceLoadLocked(t) ==
  /\ pc[t] = "ob_load"
  /\ watcherMtx = NoThread
  /\ watcher' = [watcher EXCEPT ![t] = traceWatcher]
  /\ IF traceWatcher = NilWatcher
       THEN /\ pc' = [pc EXCEPT ![t] = "idle"]
            /\ lastOp' = [lastOp EXCEPT ![t] = "observeTrace"]
            /\ ForgetHistory(t)
       ELSE /\ pc' = [pc EXCEPT ![t] = "ob_call"]
            /\ UNCHANGED <<lastOp, pubAtBegin, hist>>
  /\ UNCHANGED <<watchRegVars, cancels, cbArg, cbId, trArg, calls, published,
                 quiet, cancelRan, cancelDone, repeat, scopeVars, spanVars,
                 propVars>>

\* watcher := atomic.LoadPointer(&r.traceWatcher); if watcher != nil {
ObserveTraceLoad(t) ==
  /\ pc[t] = "ob_load"
  /\ watcher' = [watcher EXCEPT ![t] = traceWatcher]
  /\ IF traceWatcher = NilWatcher
       THEN /\ pc' = [pc EXCEPT ![t] = "idle"]
            /\ lastOp' = [lastOp EXCEPT ![t] = "observeTrace"]
            /\ ForgetHistory(t)
       ELSE /\ pc' = [pc EXCEPT ![t] = "ob_call"]
            /\ UNCHANGED <<lastOp, pubAtBegin, hist>>
  /\ UNCHANGED <<watchRegVars, cancels, cbArg, cbId, trArg, calls, published,
                 quiet, cancelRan, cancelDone, repeat, scopeVars, spanVars,
                 propVars>>

\* watcher.watcher(t): the lone callback, or the next cb(t) of the closure's loop
ObserveTraceInvoke(t) ==
  /\ pc[t] = "ob_call"
  /\ LET cbs == Invoke(watcher[t])
         k == Len(calls[t]) + 1
     IN  /\ calls' = [calls EXCEPT ![t] = Append(@, <<cbs[k], trArg[t]>>)]
         /\ IF k = Len(cbs)
              THEN /\ pc' = [pc EXCEPT ![t] = "idle"]
                   /\ lastOp' = [lastOp EXCEPT ![t] = "observeTrace"]
                   /\ ForgetHistory(t)
              ELSE UNCHANGED <<pc, lastOp, pubAtBegin, hist>>
  /\ UNCHANGED <<watchRegVars, cancels, cbArg, cbId, trArg, watcher, published,
                 quiet, cancelRan, cancelDone, repeat, scopeVars, spanVars,
                 propVars>>

\* ---- ObserveTraces ----
ObserveTracesCall(t, cb) ==
  /\ pc[t] = "idle"
  /\ watcherCounter
       + Cardinality({u \in Threads : pc[u] \in {"ot_lock", "ot_reg"}}) < MaxWatchers
  /\ pc' = [pc EXCEPT ![t] = "ot_lock"]
  /\ lastOp' = [lastOp EXCEPT ![t] = "none"]
  /\ cbArg' = [cbArg EXCEPT ![t] = cb]
  /\ cbId' = [cbId EXCEPT ![t] = -1]
  /\ repeat' = [repeat EXCEPT ![t] = FALSE]
  /\ ForgetObserve(t)
  /\ UNCHANGED <<watchRegVars, cancels, published, pubAtBegin, hist,
                 cancelRan, cancelDone, scopeVars, spanVars, propVars>>

\* r.watcherMtx.Lock()
ObserveTracesLock(t) ==
  /\ pc[t] = "ot_lock"
  /\ watcherMtx = NoThread
  /\ watcherMtx' = t
  /\ pc' = [pc EXCEPT ![t] = "ot_reg"]
  /\ NoteLock
  /\ UNCHANGED <<lastOp, traceWatcher, watcherCounter, traceWatchers, cancels,
                 watchLocals, published, pubAtBegin, hist, cancelRan,
                 cancelDone, repeat, scopeVars, spanVars, propVars>>

\* r.traceWatchers[id] = cb
SetWatcher(m, id, cb) ==
  [i \in DOMAIN m \cup {id} |-> IF i = id THEN cb ELSE m[i]]

\* an ObserveTraces that does not advance watcherCounter
ObserveTracesRegisterSameId(t) ==
  /\ pc[t] = "ot_reg"
  /\ cbId' = [cbId EXCEPT ![t] = watcherCounter]
  /\ watcherCounter' = watcherCounter
  /\ traceWatchers' = SetWatcher(traceWatchers, watcherCounter, cbArg[t])
  /\ NoteMap(traceWatchers')
  /\ pc' = [pc EXCEPT ![t] = "ot_upd"]
  /\ UNCHANGED <<lastOp, traceWatcher, watcherMtx, cancels, cbArg, trArg,
                 watcher, calls, published, pubAtBegin, quiet, cancelRan,
                 cancelDone, repeat, scopeVars, spanVars, propVars>>

\* cbId := r.watcherCounter; r.watcherCounter += 1; r.traceWatchers[cbId] = cb
ObserveTracesRegister(t) ==
  /\ pc[t] = "ot_reg"
  /\ cbId' = [cbId EXCEPT ![t] = watcherCounter]
  /\ watcherCounter' = watcherCounter + 1
  /\ traceWatchers' = SetWatcher(traceWatchers, watcherCounter, cbArg[t])
  /\ NoteMap(traceWatchers')
  /\ pc' = [pc EXCEPT ![t] = "ot_upd"]
  /\ UNCHANGED <<lastOp, traceWatcher, watcherMtx, cancels, cbArg, trArg,
                 watcher, calls, published, pubAtBegin, quiet, cancelRan,
                 cancelDone, repeat, scopeVars, spanVars, propVars>>

\* r.updateWatcher()
ObserveTracesUpdate(t) ==
  /\ pc[t] = "ot_upd"
  /\ traceWatcher' \in updateWatcher(traceWatchers)
  /\ published' = traceWatchers
  /\ pc' = [pc EXCEPT ![t] = "ot_ret"]
  /\ UNCHANGED <<lastOp, watcherMtx, watcherCounter, traceWatchers, cancels,
                 watchLocals, pubAtBegin, hist, quiet, cancelRan,
                 cancelDone, repeat, scopeVars, spanVars, propVars>>

\* return the cancel closure, running the deferred r.watcherMtx.Unlock()
ObserveTracesReturn(t) ==
  /\ pc[t] = "ot_ret"
  /\ watcherMtx' = NoThread
  /\ cancels' = cancels \cup {cbId[t]}
  /\ pc' = [pc EXCEPT ![t] = "idle"]
  /\ lastOp' = [lastOp EXCEPT ![t] = "ObserveTraces"]
  /\ UNCHANGED <<traceWatcher, watcherCounter, traceWatchers, watchLocals,
                 watchHistory, scopeVars, spanVars, propVars>>

\* ---- the cancel closure returned by ObserveTraces ----
\* any thread calls the closure that captured cbId = id
CancelCall(t, id) ==
  /\ pc[t] = "idle"
  /\ id \in cancels
  /\ pc' = [pc EXCEPT ![t] = "cn_lock"]
  /\ lastOp' = [lastOp EXCEPT ![t] = "none"]
  /\ cbId' = [cbId EXCEPT ![t] = id]
  /\ cbArg' = [cbArg EXCEPT ![t] = ""]
  /\ repeat' = [repeat EXCEPT ![t] = FALSE]
  /\ ForgetObserve(t)
  /\ UNCHANGED <<watchRegVars, cancels, published, pubAtBegin, hist,
                 cancelRan, cancelDone, scopeVars, spanVars, propVars>>

\* r.watcherMtx.Lock()
CancelLock(t) ==
  /\ pc[t] = "cn_lock"
  /\ watcherMtx = NoThread
  /\ watcherMtx' = t
  /\ pc' = [pc EXCEPT ![t] = "cn_del"]
  /\ NoteLock
  /\ UNCHANGED <<lastOp, traceWatcher, watcherCounter, traceWatchers, cancels,
                 watchLocals, published, pubAtBegin, hist, cancelRan,
                 cancelDone, repeat, scopeVars, spanVars, propVars>>

\* a cancel that removes the newest registration instead of its own
DeleteWatcherNewest(m, id) ==
  [i \in DOMAIN m \ {j \in DOMAIN m : \A k \in DOMAIN m : k <= j} |-> m[i]]

\* a cancel that removes nothing
DeleteWatcherNothing(m, id) == m

\* delete(r.traceWatchers, cbId)
DeleteWatcher(m, id) == [i \in DOMAIN m \ {id} |-> m[i]]

CancelDelete(t) ==
  /\ pc[t] = "cn_del"
  /\ traceWatchers' = DeleteWatcher(traceWatchers, cbId[t])
  /\ NoteMap(traceWatchers')
  /\ cancelRan' = cancelRan \cup {cbId[t]}
  /\ repeat' = [repeat EXCEPT ![t] = cbId[t] \in cancelRan]
  /\ pc' = [pc EXCEPT ![t] = "cn_upd"]
  /\ UNCHANGED <<lastOp, traceWatcher, watcherMtx, watcherCounter, cancels,
                 watchLocals, published, pubAtBegin, quiet, cancelDone,
                 scopeVars, spanVars, propVars>>

\* r.updateWatcher()
CancelUpdate(t) ==
  /\ pc[t] = "cn_upd"
  /\ traceWatcher' \in updateWatcher(traceWatchers)
  /\ published' = traceWatchers
  /\ pc' = [pc EXCEPT ![t] = "cn_ret"]
  /\ UNCHANGED <<lastOp, watcherMtx, watcherCounter, traceWatchers, cancels,
                 watchLocals, pubAtBegin, hist, quiet, cancelRan,
                 cancelDone, repeat, scopeVars, spanVars, propVars>>

\* the deferred r.watcherMtx.Unlock()
CancelReturn(t) ==
  /\ pc[t] = "cn_ret"
  /\ watcherMtx' = NoThread
  /\ cancelDone' = cancelDone \cup {cbId[t]}
  /\ pc' = [pc EXCEPT ![t] = "idle"]
  /\ lastOp' = [lastOp EXCEPT ![t] = "cancel"]
  /\ UNCHANGED <<traceWatcher, watcherCounter, traceWatchers, cancels,
                 watchLocals, published, pubAtBegin, hist, quiet, cancelRan, repeat, scopeVars, spanVars,
                 propVars>>

NextWatch ==
  \E t \in WatchThreads :
    \/ \E tr \in Traces : ObserveTraceCall(t, tr)
    \/ ObserveTraceLoad(t)
    \/ ObserveTraceInvoke(t)
    \/ \E cb \in Callbacks : ObserveTracesCall(t, cb)
    \/ ObserveTracesLock(t)
    \/ ObserveTracesRegister(t)
    \/ ObserveTracesUpdate(t)
    \/ ObserveTracesReturn(t)
    \/ \E id \in cancels : CancelCall(t, id)
    \/ CancelLock(t)
    \/ CancelDelete(t)
    \/ CancelUpdate(t)
    \/ CancelReturn(t)

SpecWatch == Init /\ [][NextWatch]_vars

\* the invocations a dispatch over the registrations of m makes for trace tr
CallsFor(m, tr) == BagOf([i \in DOMAIN m |-> <<m[i], tr>>])

(***************************************************************************)
(* C2: with N watchers registered and none cancelled, an observeTrace(t)   *)
(* call made while no registration is in progress invokes each of the N    *)
(* registered callbacks exactly once, with t (nothing for N = 0).          *)
(***************************************************************************)
ObserveInvokesAllOnce ==
  \A t \in Threads :
    ( /\ lastOp[t] = "observeTrace"
      /\ quiet[t]
      /\ DOMAIN traceWatchers = 0..(watcherCounter - 1) )
    => /\ Len(calls[t]) = watcherCounter
       /\ BagOf(calls[t]) = CallsFor(traceWatchers, trArg[t])

\* two different callbacks are registered and one call invoked both
ObserveInvokesAllOnceWitness ==
  \E t \in Threads :
    /\ lastOp[t] = "observeTrace"
    /\ quiet[t]
    /\ DOMAIN traceWatchers = {0, 1}
    /\ traceWatchers[0] # traceWatchers[1]
    /\ Len(calls[t]) = 2

(***************************************************************************)
(* C3: once a cancel call has returned, the registration it removed is in  *)
(* no dispatch published from then on, so an observeTrace call that begins *)
(* afterwards does not invoke it; such a call, made while no registration  *)
(* is in progress, invokes every watcher still registered exactly once.    *)
(***************************************************************************)
CancelledNotInvoked ==
  /\ \A id \in cancelDone :
       id \notin DOMAIN traceWatchers /\ id \notin DOMAIN published
  /\ BagOf(Invoke(traceWatcher)) = BagOf(published)
  /\ \A t \in Threads :
       (lastOp[t] = "observeTrace" /\ quiet[t] /\ cancelDone # {})
       => BagOf(calls[t]) = CallsFor(traceWatchers, trArg[t])

\* one of two watchers was cancelled and a later call invoked only the other
CancelledNotInvokedWitness ==
  \E t \in Threads :
    /\ lastOp[t] = "observeTrace"
    /\ quiet[t]
    /\ cancelDone = {0}
    /\ DOMAIN traceWatchers = {1}
    /\ calls[t] = <<<<traceWatchers[1], trArg[t]>>>>

(***************************************************************************)
(* C4: a cancel call whose delete comes after an earlier delete of the     *)
(* same closure, from whichever thread, leaves traceWatchers as it was,    *)
(* and the dispatch it republishes invokes the same callbacks as the one   *)
(* it replaces.                                                            *)
(***************************************************************************)
CancelIdempotent ==
  [][\A t \in Threads :
       /\ (pc[t] = "cn_del" /\ pc'[t] = "cn_upd" /\ cbId[t] \in cancelRan)
            => traceWatchers' = traceWatchers
       /\ (pc[t] = "cn_upd" /\ pc'[t] = "cn_ret" /\ repeat[t])
            => BagOf(Invoke(traceWatcher')) = BagOf(Invoke(traceWatcher))]_vars

\* a repeated cancel has returned while a later registration is in the map
CancelIdempotentWitness ==
  \E t \in Threads :
    /\ lastOp[t] = "cancel"
    /\ repeat[t]
    /\ cbId[t] = 0
    /\ DOMAIN traceWatchers = {1}
    /\ traceWatcher = [kind |-> "one", cb |-> traceWatchers[1]]

(***************************************************************************)
(* C17: watcherCounter grows by one with every registration and never      *)
(* shrinks, so the id a registration gets is one no registration had       *)
(* before; a cancel, also a stale or repeated one, removes no registration *)
(* but the one it was returned for, and the same callback registered twice *)
(* makes two registrations.                                                *)
(***************************************************************************)
WatcherIdsNotReused ==
  /\ [](\A id \in DOMAIN traceWatchers \cup cancels \cup cancelRan :
          id < watcherCounter)
  /\ [][/\ watcherCounter' >= watcherCounter
        /\ \A t \in Threads :
             /\ (pc[t] = "ot_reg" /\ pc'[t] = "ot_upd") =>
                  /\ watcherCounter' = watcherCounter + 1
                  /\ cbId'[t] \notin DOMAIN traceWatchers \cup cancels
                  /\ DOMAIN traceWatchers'
                       = DOMAIN traceWatchers \cup {cbId'[t]}
                  /\ \A i \in DOMAIN traceWatchers :
                       traceWatchers'[i] = traceWatchers[i]
             /\ (pc[t] = "cn_del" /\ pc'[t] = "cn_upd") =>
                  \A i \in DOMAIN traceWatchers \ {cbId[t]} :
                    /\ i \in DOMAIN traceWatchers'
                    /\ traceWatchers'[i] = traceWatchers[i]]_vars

\* cb1 was registered twice and a dispatch invoked it twice; the cancel of the
\* first registration has returned and the second is still registered
WatcherIdsNotReusedWitness ==
  \E t, u \in Threads :
    /\ lastOp[t] = "cancel" /\ cbId[t] = 0
    /\ DOMAIN traceWatchers = {1}
    /\ traceWatchers[1] = "cb1"
    /\ lastOp[u] = "observeTrace"
    /\ Len(calls[u]) = 2
    /\ calls[u][1][1] = "cb1" /\ calls[u][2][1] = "cb1"

(***************************************************************************)
(* C5: every observeTrace call that finds a dispatch invokes exactly the   *)
(* callbacks of one registration state, each registration once, no partial *)
(* set.  As claimed, that state is one traceWatchers held at or after the  *)
(* instant the call began.                                                 *)
(***************************************************************************)
InvokesAllLoaded(t) ==
  lastOp[t] = "observeTrace"
    => calls[t] = [i \in DOMAIN Invoke(watcher[t]) |->
                     <<Invoke(watcher[t])[i], trArg[t]>>]

ObserveSeesStateSinceBegin ==
  \A t \in Threads :
    /\ InvokesAllLoaded(t)
    /\ pc[t] = "ob_call"
         => \E m \in hist[t] : BagOf(Invoke(watcher[t])) = BagOf(m)

(***************************************************************************)
(* C5 as amended: the state is one traceWatchers held at or after the      *)
(* instant the call began, or the one published last before it began (the  *)
(* map as it was before a registration or cancellation that holds          *)
(* watcherMtx, with the map changed and not yet republished, at that       *)
(* instant).                                                               *)
(***************************************************************************)
ObserveSeesPublishedState ==
  \A t \in Threads :
    /\ InvokesAllLoaded(t)
    /\ pc[t] = "ob_call"
         => \E m \in hist[t] \cup {pubAtBegin[t]} :
              BagOf(Invoke(watcher[t])) = BagOf(m)

\* a call is half way through a dispatch of two callbacks while the map has
\* changed since it began
ObserveSeesPublishedStateWitness ==
  \E t \in Threads :
    /\ pc[t] = "ob_call"
    /\ watcher[t].kind = "many"
    /\ Len(calls[t]) = 1
    /\ Cardinality(hist[t]) >= 2

(***************************************************************************)
(* C6: observeTrace takes no mutex: in every reachable state, whoever      *)
(* holds watcherMtx and whatever it has done to the map, a thread at the   *)
(* load of observeTrace, or at a callback call of its dispatch, can take   *)
(* that step.                                                              *)
(***************************************************************************)
ObserveTraceLockFree ==
  \A t \in Threads :
    /\ pc[t] = "ob_load" => ENABLED ObserveTraceLoad(t)
    /\ pc[t] = "ob_call" => ENABLED ObserveTraceInvoke(t)

\* a call is at its load while another thread holds watcherMtx with the map
\* changed and the pointer not yet republished
ObserveTraceLockFreeWitness ==
  \E t, u \in Threads :
    /\ pc[t] = "ob_load"
    /\ watcherMtx = u
    /\ pc[u] \in {"ot_upd", "cn_upd"}
    /\ traceWatchers # published

(***************************************************************************)
(* C7: whenever watcherMtx is free, the published pointer agrees with      *)
(* traceWatchers: nil iff the map is empty, the lone callback for one      *)
(* registration, a combined closure for more, and calling it invokes the   *)
(* callback of every registration in the map exactly once.                 *)
(***************************************************************************)
PointerConsistent ==
  watcherMtx = NoThread =>
    /\ traceWatcher = NilWatcher <=> DOMAIN traceWatchers = {}
    /\ Cardinality(DOMAIN traceWatchers) = 1 => traceWatcher.kind = "one"
    /\ Cardinality(DOMAIN traceWatchers) > 1 => traceWatcher.kind = "many"
    /\ BagOf(Invoke(traceWatcher)) = BagOf(traceWatchers)

\* after a cancel returned, one registration is left and published alone
PointerConsistentWitness ==
  /\ watcherMtx = NoThread
  /\ \E t \in Threads : lastOp[t] = "cancel" /\ ~repeat[t]
  /\ Cardinality(DOMAIN traceWatchers) = 1
  /\ traceWatcher.kind = "one"

(***************************************************************************)
(* Root and orphan spans                                                   *)
(***************************************************************************)
\* goroutines starting and ending spans and calling RootSpans
SpanThreads == {"t1", "t2"}

\* r.spans[s] = struct{}{} and delete(r.spans, s), likewise for r.orphans
addSpan(set, s) == set \cup {s}
\* a delete that empties the set when the span is not in it
deleteSpanOrClear(set, s) == IF s \in set THEN set \ {s} ELSE {}
deleteSpan(set, s) == set \ {s}

\* thread u is inside a RootSpans call
InRootSpans(u) ==
  pc[u] \in {"rs_spans", "rs_lock", "rs_orphans", "rs_sort", "rs_visit"}

\* the history of the calls made for a span, in the order in which they take
\* their mutex: "new", then "root" or "orphan", then "ended"; a call out of
\* line makes it "bad"
Step(s, from, to) ==
  life' = [x \in DOMAIN life |->
             IF x # s THEN life[x] ELSE IF life[x] = from THEN to ELSE "bad"]
\* a root or orphan set changes: running RootSpans calls are no longer fresh
Stale(changed) ==
  /\ fresh' = [u \in Threads |-> IF changed THEN FALSE ELSE fresh[u]]
  /\ seen' = [seen EXCEPT !.trail = [u \in Threads |->
               IF seen.on /\ changed /\ InRootSpans(u)
                 THEN Append(seen.trail[u], <<spans', orphans'>>)
                 ELSE seen.trail[u]]]


\* a thread leaves its last RootSpans call behind
ForgetRootSpans(t) ==
  /\ rsSpans' = [rsSpans EXCEPT ![t] = {}]
  /\ rsOrphans' = [rsOrphans EXCEPT ![t] = {}]
  /\ rsSorted' = [rsSorted EXCEPT ![t] = <<>>]
  /\ rsIdx' = [rsIdx EXCEPT ![t] = 0]
  /\ walk' = [walk EXCEPT ![t] = <<>>]

\* r.spanMtx.Lock() of rootSpanStart(s)
rootSpanStartLock(t, s) ==
  /\ pc[t] = "idle"
  /\ spanMtx = NoThread
  /\ spanMtx' = t
  /\ pc' = [pc EXCEPT ![t] = "rss_add"]
  /\ lastOp' = [lastOp EXCEPT ![t] = "none"]
  /\ spArg' = [spArg EXCEPT ![t] = s]
  /\ Step(s, "new", "root")
  /\ ForgetRootSpans(t)
  /\ fresh' = [fresh EXCEPT ![t] = FALSE]
  /\ seen' = [seen EXCEPT !.trail[t] = <<>>]
  /\ UNCHANGED <<spans, orphanMtx, orphans, scopeVars, watchVars, propVars>>

\* r.spans[s] = struct{}{}; r.spanMtx.Unlock()
rootSpanStartAdd(t) ==
  /\ pc[t] = "rss_add"
  /\ spans' = addSpan(spans, spArg[t])
  /\ spanMtx' = NoThread
  /\ pc' = [pc EXCEPT ![t] = "idle"]
  /\ lastOp' = [lastOp EXCEPT ![t] = "rootSpanStart"]
  /\ life' = life
  /\ spArg' = [spArg EXCEPT ![t] = NoSpan]
  /\ UNCHANGED <<orphanMtx, orphans, rsSpans, rsOrphans, rsSorted, rsIdx, walk,
                 scopeVars, watchVars, propVars>>
  /\ Stale(spans' # spans)

\* r.spanMtx.Lock() of rootSpanEnd(s)
rootSpanEndLock(t, s) ==
  /\ pc[t] = "idle"
  /\ spanMtx = NoThread
  /\ spanMtx' = t
  /\ pc' = [pc EXCEPT ![t] = "rse_del"]
  /\ lastOp' = [lastOp EXCEPT ![t] = "none"]
  /\ spArg' = [spArg EXCEPT ![t] = s]
  /\ Step(s, "root", "ended")
  /\ ForgetRootSpans(t)
  /\ fresh' = [fresh EXCEPT ![t] = FALSE]
  /\ seen' = [seen EXCEPT !.trail[t] = <<>>]
  /\ UNCHANGED <<spans, orphanMtx, orphans, scopeVars, watchVars, propVars>>

\* delete(r.spans, s); r.spanMtx.Unlock()
rootSpanEndDelete(t) ==
  /\ pc[t] = "rse_del"
  /\ spans' = deleteSpan(spans, spArg[t])
  /\ spanMtx' = NoThread
  /\ pc' = [pc EXCEPT ![t] = "idle"]
  /\ lastOp' = [lastOp EXCEPT ![t] = "rootSpanEnd"]
  /\ life' = life
  /\ spArg' = [spArg EXCEPT ![t] = NoSpan]
  /\ UNCHANGED <<orphanMtx, orphans, rsSpans, rsOrphans, rsSorted, rsIdx, walk,
                 scopeVars, watchVars, propVars>>
  /\ Stale(spans' # spans)

\* r.orphanMtx.Lock() of orphanedSpan(s)
orphanedSpanLock(t, s) ==
  /\ pc[t] = "idle"
  /\ orphanMtx = NoThread
  /\ orphanMtx' = t
  /\ pc' = [pc EXCEPT ![t] = "os_add"]
  /\ lastOp' = [lastOp EXCEPT ![t] = "none"]
  /\ spArg' = [spArg EXCEPT ![t] = s]
  /\ Step(s, "new", "orphan")
  /\ ForgetRootSpans(t)
  /\ fresh' = [fresh EXCEPT ![t] = FALSE]
  /\ seen' = [seen EXCEPT !.trail[t] = <<>>]
  /\ UNCHANGED <<spanMtx, spans, orphans, scopeVars, watchVars, propVars>>

\* an orphanedSpan that also enters the span in r.spans
orphanedSpanAddBoth(t) ==
  /\ pc[t] = "os_add"
  /\ orphans' = addSpan(orphans, spArg[t])
  /\ spans' = addSpan(spans, spArg[t])
  /\ orphanMtx' = NoThread
  /\ pc' = [pc EXCEPT ![t] = "idle"]
  /\ lastOp' = [lastOp EXCEPT ![t] = "orphanedSpan"]
  /\ life' = life
  /\ spArg' = [spArg EXCEPT ![t] = NoSpan]
  /\ UNCHANGED <<spanMtx, rsSpans, rsOrphans, rsSorted, rsIdx, walk, scopeVars,
                 watchVars, propVars>>
  /\ Stale(TRUE)

\* r.orphans[s] = struct{}{}; r.orphanMtx.Unlock()
orphanedSpanAdd(t) ==
  /\ pc[t] = "os_add"
  /\ orphans' = addSpan(orphans, spArg[t])
  /\ orphanMtx' = NoThread
  /\ pc' = [pc EXCEPT ![t] = "idle"]
  /\ lastOp' = [lastOp EXCEPT ![t] = "orphanedSpan"]
  /\ life' = life
  /\ spArg' = [spArg EXCEPT ![t] = NoSpan]
  /\ UNCHANGED <<spanMtx, spans, rsSpans, rsOrphans, rsSorted, rsIdx, walk,
                 scopeVars, watchVars, propVars>>
  /\ Stale(orphans' # orphans)

\* r.orphanMtx.Lock() of orphanEnd(s)
orphanEndLock(t, s) ==
  /\ pc[t] = "idle"
  /\ orphanMtx = NoThread
  /\ orphanMtx' = t
  /\ pc' = [pc EXCEPT ![t] = "oe_del"]
  /\ lastOp' = [lastOp EXCEPT ![t] = "none"]
  /\ spArg' = [spArg EXCEPT ![t] = s]
  /\ Step(s, "orphan", "ended")
  /\ ForgetRootSpans(t)
  /\ fresh' = [fresh EXCEPT ![t] = FALSE]
  /\ seen' = [seen EXCEPT !.trail[t] = <<>>]
  /\ UNCHANGED <<spanMtx, spans, orphans, scopeVars, watchVars, propVars>>

\* delete(r.orphans, s); r.orphanMtx.Unlock()
orphanEndDelete(t) ==
  /\ pc[t] = "oe_del"
  /\ orphans' = deleteSpan(orphans, spArg[t])
  /\ orphanMtx' = NoThread
  /\ pc' = [pc EXCEPT ![t] = "idle"]
  /\ lastOp' = [lastOp EXCEPT ![t] = "orphanEnd"]
  /\ life' = life
  /\ spArg' = [spArg EXCEPT ![t] = NoSpan]
  /\ UNCHANGED <<spanMtx, spans, rsSpans, rsOrphans, rsSorted, rsIdx, walk,
                 scopeVars, watchVars, propVars>>
  /\ Stale(orphans' # orphans)

\* ---- spanSorter ----
\* iname < jname on the strings of FuncNames
StrLess(a, b) ==
  \E i, j \in DOMAIN FuncNames : FuncNames[i] = a /\ FuncNames[j] = b /\ i < j

\* a spanSorter.Less that orders by id first
LessIdFirst(ispan, jspan) ==
  \/ ispan.id < jspan.id
  \/ ispan.id = jspan.id /\ StrLess(ispan.f, jspan.f)

\* spanSorter.Less
Less(ispan, jspan) ==
  \/ StrLess(ispan.f, jspan.f)
  \/ ispan.f = jspan.f /\ ispan.id < jspan.id

\* every order in which `for s := range set` may yield the spans of a set
SetOrders(set) ==
  LET n == Cardinality(set)
  IN  {o \in [1..n -> set] : \A i, j \in 1..n : o[i] = o[j] => i = j}

\* the sorted arrangements of the elements of seq at the indices I: any
\* element that no other one is Less than may come first
RECURSIVE SortFrom(_, _)
SortFrom(seq, I) ==
  IF I = {} THEN {<<>>}
  ELSE UNION {{<<seq[i]>> \o r : r \in SortFrom(seq, I \ {i})} :
                i \in {i \in I : \A j \in I : ~Less(seq[j], seq[i])}}

\* sort.Sort(spanSorter(seq)): it is not stable, so every rearrangement in
\* which no element is Less than an earlier one may come out
Sort(seq) == SortFrom(seq, DOMAIN seq)

\* a RootSpans that leaves the orphans out
RootSpansAppendRootsOnly(a, b) == SetOrders(a)

\* a RootSpans that appends the orphans a second time
RootSpansAppendOrphansTwice(a, b) ==
  {x \o y \o y : x \in SetOrders(a), y \in SetOrders(b)}

\* spans = append(spans, orphans...): the two copies, each in the order its
\* `for s := range` loop happened to yield
RootSpansAppend(a, b) ==
  {x \o y : x \in SetOrders(a), y \in SetOrders(b)}

\* r.spanMtx.Lock() of RootSpans(cb)
RootSpansLockSpans(t) ==
  /\ pc[t] = "idle"
  /\ spanMtx = NoThread
  /\ spanMtx' = t
  /\ pc' = [pc EXCEPT ![t] = "rs_spans"]
  /\ lastOp' = [lastOp EXCEPT ![t] = "none"]
  /\ ForgetRootSpans(t)
  /\ spArg' = [spArg EXCEPT ![t] = NoSpan]
  /\ fresh' = [fresh EXCEPT ![t] = TRUE]
  /\ seen' = [seen EXCEPT !.trail[t] =
                       IF seen.on THEN <<<<spans, orphans>>>> ELSE <<>>]
  /\ UNCHANGED <<spans, orphanMtx, orphans, life, scopeVars, watchVars, propVars>>

\* a RootSpans that keeps spanMtx while it goes on to take orphanMtx
RootSpansCopySpansKeepLock(t) ==
  /\ pc[t] = "rs_spans"
  /\ rsSpans' = [rsSpans EXCEPT ![t] = spans]
  /\ pc' = [pc EXCEPT ![t] = "rs_lock"]
  /\ UNCHANGED <<lastOp, spanMtx, spans, orphanMtx, orphans, spArg, rsOrphans,
                 rsSorted, rsIdx, walk, life, fresh, seen, scopeVars, watchVars,
                 propVars>>

\* the copy of r.spans; r.spanMtx.Unlock()
RootSpansCopySpans(t) ==
  /\ pc[t] = "rs_spans"
  /\ rsSpans' = [rsSpans EXCEPT ![t] = spans]
  /\ spanMtx' = NoThread
  /\ pc' = [pc EXCEPT ![t] = "rs_lock"]
  /\ UNCHANGED <<lastOp, spans, orphanMtx, orphans, spArg, rsOrphans, rsSorted,
                 rsIdx, walk, life, fresh, seen, scopeVars, watchVars, propVars>>

\* r.orphanMtx.Lock()
RootSpansLockOrphans(t) ==
  /\ pc[t] = "rs_lock"
  /\ orphanMtx = NoThread
  /\ orphanMtx' = t
  /\ pc' = [pc EXCEPT ![t] = "rs_orphans"]
  /\ UNCHANGED <<lastOp, spanMtx, spans, orphans, spanLocals, life, fresh, seen,
                 scopeVars, watchVars, propVars>>

\* the copy of r.orphans; r.orphanMtx.Unlock()
RootSpansCopyOrphans(t) ==
  /\ pc[t] = "rs_orphans"
  /\ rsOrphans' = [rsOrphans EXCEPT ![t] = orphans]
  /\ orphanMtx' = NoThread
  /\ pc' = [pc EXCEPT ![t] = "rs_sort"]
  /\ UNCHANGED <<lastOp, spanMtx, spans, orphans, spArg, rsSpans, rsSorted,
                 rsIdx, walk, life, fresh, seen, scopeVars, watchVars, propVars>>

\* spans = append(spans, orphans...); sort.Sort(spanSorter(spans))
RootSpansSort(t) ==
  /\ pc[t] = "rs_sort"
  /\ \E q \in RootSpansAppend(rsSpans[t], rsOrphans[t]) :
       \E p \in Sort(q) : rsSorted' = [rsSorted EXCEPT ![t] = p]
  /\ IF rsSpans[t] = {} /\ rsOrphans[t] = {}
       THEN /\ pc' = [pc EXCEPT ![t] = "idle"]
            /\ lastOp' = [lastOp EXCEPT ![t] = "RootSpans"]
       ELSE /\ pc' = [pc EXCEPT ![t] = "rs_visit"]
            /\ lastOp' = lastOp
  /\ UNCHANGED <<spanRegVars, spArg, rsSpans, rsOrphans, rsIdx, walk, life, fresh, seen,
                 scopeVars, watchVars, propVars>>

\* the next iteration of `for _, s := range spans`, cb(s) left to the caller
RootSpansNext(t) ==
  /\ pc[t] = "rs_visit"
  /\ rsIdx' = [rsIdx EXCEPT ![t] = @ + 1]
  /\ IF rsIdx[t] + 1 = Len(rsSorted[t])
       THEN /\ pc' = [pc EXCEPT ![t] = "idle"]
            /\ lastOp' = [lastOp EXCEPT ![t] = "RootSpans"]
       ELSE UNCHANGED <<pc, lastOp>>
  /\ UNCHANGED <<spanRegVars, spArg, rsSpans, rsOrphans, rsSorted, life, fresh, seen,
                 scopeVars, watchVars>>

\* the next cb(s) of `for _, s := range spans`, for a cb that only looks
RootSpansVisit(t) ==
  /\ RootSpansNext(t)
  /\ UNCHANGED <<walk, propVars>>

\* the spans cb has been called with so far, in order
Visited(t) == SubSeq(rsSorted[t], 1, rsIdx[t])

\* The four bookkeeping methods are unexported: a Span calls rootSpanStart or
\* orphanedSpan, one of them and once, when it is created, and the matching
\* rootSpanEnd or orphanEnd, once, when it completes.
NextSpans ==
  \E t \in SpanThreads :
    \/ \E s \in SpanPool : life[s] = "new" /\ rootSpanStartLock(t, s)
    \/ rootSpanStartAdd(t)
    \/ \E s \in SpanPool : life[s] = "root" /\ rootSpanEndLock(t, s)
    \/ rootSpanEndDelete(t)
    \/ \E s \in SpanPool : life[s] = "new" /\ orphanedSpanLock(t, s)
    \/ orphanedSpanAdd(t)
    \/ \E s \in SpanPool : life[s] = "orphan" /\ orphanEndLock(t, s)
    \/ orphanEndDelete(t)
    \/ RootSpansLockSpans(t)
    \/ RootSpansCopySpans(t)
    \/ RootSpansLockOrphans(t)
    \/ RootSpansCopyOrphans(t)
    \/ RootSpansSort(t)
    \/ RootSpansVisit(t)

SpecSpans == Init /\ [][NextSpans]_vars

\* the thread has sorted the snapshot of its current or last RootSpans call
Sorted(t) == pc[t] = "rs_visit" \/ lastOp[t] = "RootSpans"
\* the key (owning Func's full name, span id) of a is at most that of b
KeyLeq(a, b) ==
  \/ \E i, j \in DOMAIN FuncNames :
       FuncNames[i] = a.f /\ FuncNames[j] = b.f /\ i < j
  \/ a.f = b.f /\ a.id <= b.id
Keys(seq) == [i \in DOMAIN seq |-> <<seq[i].f, seq[i].id>>]

\* each RootSpans call visits the spans of its two copies, once per copy
\* they are in, in non-decreasing key order
VisitsSnapshotInKeyOrder(t) ==
  Sorted(t) =>
    /\ BagOf(rsSorted[t]) = SetToBag(rsSpans[t]) (+) SetToBag(rsOrphans[t])
    /\ \A i, j \in DOMAIN rsSorted[t] :
         i < j => KeyLeq(rsSorted[t][i], rsSorted[t][j])
    /\ lastOp[t] = "RootSpans" => Visited(t) = rsSorted[t]

-----------------------------------------------------------------------------
\* Trace context propagation: the round trip of TestPropagation and
\* TestForcedSample through TraceRequest, TraceHandler and the test's handler

\* the test's goroutine and the goroutine that serves the request
Client == "t2"
Server == "t1"
\* the ids NewId can return
SpanIds == {0, 7, 42, 105}
TraceIds == {3, 42}
\* the ids of the spans the registry holds
LiveIds == {s.id : s \in spans \cup orphans}

Digits == <<"0", "1", "2", "3", "4", "5", "6", "7", "8", "9">>

\* the decimal text of a non-negative integer (%d)
RECURSIVE FormatInt(_)
FormatInt(n) ==
  IF n < 10 THEN <<Digits[n + 1]>>
  ELSE FormatInt(n \div 10) \o <<Digits[(n % 10) + 1]>>

\* the value of a decimal digit, -1 for any other character
DigitValue(c) ==
  IF \E d \in 1..10 : Digits[d] = c
    THEN (CHOOSE d \in 1..10 : Digits[d] = c) - 1
    ELSE -1

\* the integer a decimal text stands for, -1 when the text is not one
RECURSIVE ParseInt(_)
ParseInt(v) ==
  IF v = <<>> THEN -1
  ELSE LET d == DigitValue(v[Len(v)])
           rest == SubSeq(v, 1, Len(v) - 1)
       IN  IF d < 0 THEN -1
           ELSE IF rest = <<>> THEN d
           ELSE IF ParseInt(rest) < 0 THEN -1
           ELSE 10 * ParseInt(rest) + d

\* the text of a boolean (%v)
FormatBool(b) ==
  IF b THEN <<"t", "r", "u", "e">> ELSE <<"f", "a", "l", "s", "e">>

ParseBool(v) == v = <<"t", "r", "u", "e">>

\* the header is a list of key=value pairs, the values text
HeaderHas(h, k) == \E i \in 1..Len(h) : h[i][1] = k
HeaderGet(h, k) == h[CHOOSE i \in 1..Len(h) : h[i][1] = k][2]
HeaderInt(h, k) == IF HeaderHas(h, k) THEN ParseInt(HeaderGet(h, k)) ELSE -1
HeaderSampled(h) == HeaderHas(h, "sampled") /\ ParseBool(HeaderGet(h, "sampled"))
\* the header carries a well-formed trace id and parent span id
HasRemoteParent(h) == HeaderInt(h, "traceid") >= 0 /\ HeaderInt(h, "parentid") >= 0

\* the client side encoding of the active span: the trace id, the span's own
\* id as the parent id the remote side records, the sampled annotation
TraceInfoToHeader(s) ==
  <<<<"traceid", FormatInt(s.trace.id)>>,
    <<"parentid", FormatInt(s.id)>>,
    <<"sampled", FormatBool(s.trace.sampled)>>>>

\* the span the server side opens for a request with header h
TraceInfoFromHeader(h, id, traceId) ==
  IF HasRemoteParent(h)
    THEN Span(6, "server.handler", id, TRUE, HeaderInt(h, "parentid"),
              Trace(HeaderInt(h, "traceid"), HeaderSampled(h)))
    ELSE Span(6, "server.handler", id, FALSE, 0,
              Trace(traceId, HeaderSampled(h)))

\* s.ParentId()
ParentId(s) == <<s.parentId, s.hasParent>>

\* a callback that reports the span found, not its parent
HandlerCallbackParent(s, parent, gp) ==
  IF s.id = parent THEN s.id ELSE gp

\* if s.Id() == parent { grandParent, _ = s.ParentId() }
HandlerCallback(s, parent, gp) ==
  IF s.id = parent THEN ParentId(s)[1] ELSE gp

\* fmt.Fprintf(w, "%d/%s/%v", grandParent, "hello", sampled)
Reply(gp, sampled) ==
  FormatInt(gp) \o <<"/", "h", "e", "l", "l", "o", "/">> \o FormatBool(sampled)

\* TestPropagation up to the deferred RemoteTrace: a trace with a new id and
\* its sampled annotation, a span of it made active in ctx
TestPropagation(id, traceId, sampled) ==
  /\ ppc = "start"
  /\ mode' = "propagation"
  /\ clientSpan' = Span(5, "client.test", id, FALSE, 0, Trace(traceId, sampled))
  /\ ppc' = "client_span"
  /\ UNCHANGED <<header, serverSpan, handlerSpan, grandParent, body>>
  /\ UNCHANGED <<pc, lastOp, scopeVars, watchVars, spanVars>>

\* the client span registers itself as a root span
ClientSpanStart ==
  /\ ppc = "client_span"
  /\ lastOp[Client] # "rootSpanStart"
  /\ rootSpanStartLock(Client, clientSpan)

\* TraceRequest: encode the active span, if any, and send the request
TraceRequest ==
  /\ ppc = "client_span"
  /\ pc[Client] = "idle"
  /\ lastOp[Client] = "rootSpanStart"
  /\ header' = IF clientSpan # NoSpan THEN TraceInfoToHeader(clientSpan) ELSE <<>>
  /\ ppc' = "sent"
  /\ UNCHANGED <<mode, clientSpan, serverSpan, handlerSpan, grandParent, body>>
  /\ UNCHANGED <<pc, lastOp, scopeVars, watchVars, spanVars>>

\* a TestForcedSample that sends no propagation header
TestForcedSampleNoHeader ==
  /\ ppc = "start"
  /\ mode' = "forced"
  /\ header' = <<>>
  /\ ppc' = "sent"
  /\ UNCHANGED <<clientSpan, serverSpan, handlerSpan, grandParent, body>>
  /\ UNCHANGED <<pc, lastOp, scopeVars, watchVars, spanVars>>

\* TestForcedSample: request.Header.Set(traceStateHeader, "sampled=true"),
\* no span in the context
TestForcedSample ==
  /\ ppc = "start"
  /\ mode' = "forced"
  /\ header' = <<<<"sampled", FormatBool(TRUE)>>>>
  /\ ppc' = "sent"
  /\ UNCHANGED <<clientSpan, serverSpan, handlerSpan, grandParent, body>>
  /\ UNCHANGED <<pc, lastOp, scopeVars, watchVars, spanVars>>

\* TraceHandler: decode the header and make the span for the request, its id
\* new among the live spans
TraceHandler(id, traceId) ==
  /\ ppc = "sent"
  /\ id \notin LiveIds
  /\ serverSpan' = TraceInfoFromHeader(header, id, traceId)
  /\ ppc' = "server_span"
  /\ UNCHANGED <<mode, clientSpan, header, handlerSpan, grandParent, body>>
  /\ UNCHANGED <<pc, lastOp, scopeVars, watchVars, spanVars>>

Registered(t) == pc[t] = "idle" /\ lastOp[t] \in {"rootSpanStart", "orphanedSpan"}
Ended(t) == pc[t] = "idle" /\ lastOp[t] \in {"rootSpanEnd", "orphanEnd"}

\* the server span registers itself: an orphan when its parent is remote
ServerSpanStartOrphan ==
  /\ ppc = "server_span"
  /\ ~Registered(Server)
  /\ serverSpan.hasParent
  /\ orphanedSpanLock(Server, serverSpan)

\* the server span registers itself: a root span when it has no parent
ServerSpanStartRoot ==
  /\ ppc = "server_span"
  /\ ~Registered(Server)
  /\ ~serverSpan.hasParent
  /\ rootSpanStartLock(Server, serverSpan)

\* the handler up to RootSpans: mon.Task() makes a child of the span in the
\* request's context; grandParent := 0; parent, found := s.ParentId()
HandlerTask(id) ==
  /\ ppc = "server_span"
  /\ Registered(Server)
  /\ id \notin LiveIds
  /\ handlerSpan' = Span(7, "http.handler", id, TRUE, serverSpan.id,
                         serverSpan.trace)
  /\ grandParent' = 0
  /\ ppc' = IF ParentId(handlerSpan')[2] THEN "lookup" ELSE "reply"
  /\ UNCHANGED <<mode, clientSpan, header, serverSpan, body>>
  /\ UNCHANGED <<pc, lastOp, scopeVars, watchVars, spanVars>>

\* monkit.RootSpans(...) of the handler begins
HandlerRootSpans ==
  /\ ppc = "lookup"
  /\ lastOp[Server] # "RootSpans"
  /\ RootSpansLockSpans(Server)

\* RootSpans calls the handler's callback with the next span
HandlerVisit ==
  /\ ppc = "lookup"
  /\ RootSpansNext(Server)
  /\ grandParent' = HandlerCallback(rsSorted[Server][rsIdx[Server] + 1],
                                    ParentId(handlerSpan)[1], grandParent)
  /\ UNCHANGED <<walk, ppc, mode, clientSpan, header, serverSpan, handlerSpan,
                 body>>

\* the handler writes the response
HandlerReply ==
  /\ \/ ppc = "reply"
     \/ ppc = "lookup" /\ pc[Server] = "idle" /\ lastOp[Server] = "RootSpans"
  /\ body' = Reply(grandParent, handlerSpan.trace.sampled)
  /\ ppc' = "replied"
  /\ UNCHANGED <<mode, clientSpan, header, serverSpan, handlerSpan, grandParent>>
  /\ UNCHANGED <<pc, lastOp, scopeVars, watchVars, spanVars>>

\* the server span completes
ServerSpanEndOrphan ==
  /\ ppc = "replied"
  /\ ~Ended(Server)
  /\ serverSpan.hasParent
  /\ orphanEndLock(Server, serverSpan)

ServerSpanEndRoot ==
  /\ ppc = "replied"
  /\ ~Ended(Server)
  /\ ~serverSpan.hasParent
  /\ rootSpanEndLock(Server, serverSpan)

\* the test has read the response
TestRead ==
  /\ ppc = "replied"
  /\ Ended(Server)
  /\ ppc' = "read"
  /\ UNCHANGED <<mode, clientSpan, header, serverSpan, handlerSpan, grandParent,
                 body>>
  /\ UNCHANGED <<pc, lastOp, scopeVars, watchVars, spanVars>>

\* the deferred end of the client span
ClientSpanEnd ==
  /\ ppc = "read"
  /\ mode = "propagation"
  /\ lastOp[Client] # "rootSpanEnd"
  /\ rootSpanEndLock(Client, clientSpan)

NextProp ==
  \/ \E id \in SpanIds, traceId \in TraceIds, sampled \in BOOLEAN :
       TestPropagation(id, traceId, sampled)
  \/ ClientSpanStart
  \/ TraceRequest
  \/ TestForcedSample
  \/ \E id \in SpanIds, traceId \in TraceIds : TraceHandler(id, traceId)
  \/ ServerSpanStartOrphan
  \/ ServerSpanStartRoot
  \/ \E id \in SpanIds : HandlerTask(id)
  \/ HandlerRootSpans
  \/ HandlerVisit
  \/ HandlerReply
  \/ ServerSpanEndOrphan
  \/ ServerSpanEndRoot
  \/ TestRead
  \/ ClientSpanEnd
  \/ \E t \in {Client, Server} :
       \/ rootSpanStartAdd(t)
       \/ rootSpanEndDelete(t)
       \/ orphanedSpanAdd(t)
       \/ orphanEndDelete(t)
       \/ RootSpansCopySpans(t)
       \/ RootSpansLockOrphans(t)
       \/ RootSpansCopyOrphans(t)
       \/ RootSpansSort(t)

SpecProp == Init /\ [][NextProp]_vars

\* C10: when the client encodes an active span with id S under a trace whose
\* sampled annotation is true, the span the server opens has parent id S and a
\* Trace that reports sampled, and the handler, which finds that span through
\* RootSpans, replies "<S>/hello/true".
PropagationRoundTrip ==
  (mode = "propagation" /\ clientSpan.trace.sampled) =>
    /\ ppc \in {"server_span", "lookup", "reply", "replied", "read"} =>
         /\ ParentId(serverSpan) = <<clientSpan.id, TRUE>>
         /\ serverSpan.trace.sampled
         /\ serverSpan.trace.id = clientSpan.trace.id
    /\ ppc \in {"replied", "read"} =>
         /\ body = FormatInt(clientSpan.id)
                     \o <<"/", "h", "e", "l", "l", "o", "/", "t", "r", "u", "e">>
         /\ ParseInt(SubSeq(body, 1, Len(body) - 11)) = clientSpan.id

\* the client span has id 42, the server has replied "42/hello/true"
PropagationRoundTripWitness ==
  /\ mode = "propagation"
  /\ ppc = "replied"
  /\ clientSpan.id = 42
  /\ clientSpan.trace.sampled
  /\ serverSpan.parentId = 42
  /\ body = <<"4", "2", "/", "h", "e", "l", "l", "o", "/", "t", "r", "u", "e">>

\* C11: a request whose header carries only sampled=true, no trace id and no
\* parent id, gets a server span with no parent id, reported as 0, under a
\* trace the server made whose sampled annotation is true; the handler
\* replies "0/hello/true". With or without a parent id in the header the
\* server's trace reports the header's sampled flag.
ForcedSample ==
  /\ ppc \in {"server_span", "lookup", "reply", "replied", "read"} =>
       serverSpan.trace.sampled = HeaderSampled(header)
  /\ mode = "forced" =>
       /\ ~HeaderHas(header, "traceid") /\ ~HeaderHas(header, "parentid")
       /\ ppc \in {"server_span", "lookup", "reply", "replied", "read"} =>
            /\ ParentId(serverSpan) = <<0, FALSE>>
            /\ serverSpan.trace.sampled
            /\ serverSpan.trace.id \in TraceIds
       /\ ppc \in {"replied", "read"} =>
            body = <<"0", "/", "h", "e", "l", "l", "o", "/", "t", "r", "u", "e">>

\* the forced request has been answered "0/hello/true" by a server span whose
\* own id is not 0
ForcedSampleWitness ==
  /\ mode = "forced"
  /\ ppc = "replied"
  /\ serverSpan.id = 7
  /\ ~serverSpan.hasParent
  /\ serverSpan \in rsSpans[Server]
  /\ body = <<"0", "/", "h", "e", "l", "l", "o", "/", "t", "r", "u", "e">>

-----------------------------------------------------------------------------
\* RootSpans while other goroutines start and end spans

\* the goroutine that calls RootSpans, the goroutines of the spans
Walker == "t1"
Starters == {"t2", "t3"}
\* the spans that start and end meanwhile
SnapPool == {s \in SpanPool : s.addr # 4}

\* the state after construction, the history of the two sets kept
InitSnap ==
  /\ InitState
  /\ seen = [NoHistory EXCEPT !.on = TRUE]

NextSnap ==
  \/ \E t \in Starters :
       \/ \E s \in SnapPool : life[s] = "new" /\ rootSpanStartLock(t, s)
       \/ rootSpanStartAdd(t)
       \/ \E s \in SnapPool : life[s] = "root" /\ rootSpanEndLock(t, s)
       \/ rootSpanEndDelete(t)
       \/ \E s \in SnapPool : life[s] = "new" /\ orphanedSpanLock(t, s)
       \/ orphanedSpanAdd(t)
       \/ \E s \in SnapPool : life[s] = "orphan" /\ orphanEndLock(t, s)
       \/ orphanEndDelete(t)
  \/ RootSpansLockSpans(Walker)
  \/ RootSpansCopySpans(Walker)
  \/ RootSpansLockOrphans(Walker)
  \/ RootSpansCopyOrphans(Walker)
  \/ RootSpansSort(Walker)
  \/ RootSpansVisit(Walker)

SpecSnap == InitSnap /\ [][NextSnap]_vars

\* the RootSpans call of t has returned
Returned(t) == pc[t] = "idle" /\ lastOp[t] = "RootSpans"
\* the instants of the call: the values the two sets had from its first Lock
\* to its return
Trail(t) == seen.trail[t]

(***************************************************************************)
(* C12: as claimed, the spans a RootSpans call visits are the root set and *)
(* the orphan set of the registry as they stood together at one instant of *)
(* the call.                                                               *)
(***************************************************************************)
RootSpansSnapshotAtomic ==
  \A t \in Threads :
    Returned(t) /\ seen.on =>
      \E i \in DOMAIN Trail(t) :
        Range(Visited(t)) = Trail(t)[i][1] \cup Trail(t)[i][2]

(***************************************************************************)
(* C12 as amended: the spans a call visits are the root set as it stood at *)
(* one instant of the call together with the orphan set as it stood at the *)
(* same or a later instant of the call.                                    *)
(***************************************************************************)
RootSpansSnapshotTwoInstants ==
  \A t \in Threads :
    Returned(t) /\ seen.on =>
      \E i, j \in DOMAIN Trail(t) :
        /\ i <= j
        /\ Range(Visited(t)) = Trail(t)[i][1] \cup Trail(t)[j][2]

\* a call returned having visited a root that had ended before the orphan it
\* also visited was registered
RootSpansSnapshotTwoInstantsWitness ==
  /\ Returned(Walker)
  /\ seen.on
  /\ \E r, o \in SnapPool :
       /\ Range(Visited(Walker)) = {r, o}
       /\ \A i \in DOMAIN Trail(Walker) :
            ~(r \in Trail(Walker)[i][1] /\ o \in Trail(Walker)[i][2])

\* the spans registered, as root or as orphan, at every instant of the call
\* of t: registered before it began and not ended before it returned
RegisteredThroughout(t) ==
  {s \in SpanPool :
     \A i \in DOMAIN Trail(t) : s \in Trail(t)[i][1] \cup Trail(t)[i][2]}

\* how many times the call of t visited s
Visits(t, s) == Cardinality({k \in DOMAIN Visited(t) : Visited(t)[k] = s})

(***************************************************************************)
(* C19: a span that is registered, as root or as orphan, before a          *)
(* RootSpans call begins and is not ended until after the call returned is *)
(* visited by that call exactly once, whatever other spans start and end   *)
(* meanwhile.                                                              *)
(***************************************************************************)
RootSpansVisitsStableSpansOnce ==
  \A t \in Threads :
    Returned(t) /\ seen.on =>
      /\ Trail(t) # <<>>
      /\ \A s \in RegisteredThroughout(t) : Visits(t, s) = 1

\* a call returned after visiting a root and an orphan that were registered
\* all through it, while other spans started or ended between its steps
RootSpansVisitsStableSpansOnceWitness ==
  /\ Returned(Walker)
  /\ seen.on
  /\ Len(Trail(Walker)) >= 3
  /\ \E r, o \in RegisteredThroughout(Walker) :
       /\ r \in Trail(Walker)[1][1]
       /\ o \in Trail(Walker)[1][2]
       /\ Visits(Walker, r) = 1
       /\ Visits(Walker, o) = 1

-----------------------------------------------------------------------------
\* Span completion called again, or for a span that never started

EndPool == {s \in SpanPool : s.addr # 2}

NextEnds ==
  \E t \in SpanThreads :
    \/ \E s \in EndPool : life[s] = "new" /\ rootSpanStartLock(t, s)
    \/ rootSpanStartAdd(t)
    \/ \E s \in EndPool : rootSpanEndLock(t, s)
    \/ rootSpanEndDelete(t)
    \/ \E s \in EndPool : life[s] = "new" /\ orphanedSpanLock(t, s)
    \/ orphanedSpanAdd(t)
    \/ \E s \in EndPool : orphanEndLock(t, s)
    \/ orphanEndDelete(t)

SpecEnds == Init /\ [][NextEnds]_vars

\* a step that completes an end call for s on set `from` takes s out of it if
\* it is there, and changes no other membership of either set
EndsOnly(s, from, from2, other, other2) ==
  /\ s \notin from2
  /\ \A x \in SpanPool : x # s => (x \in from2 <=> x \in from)
  /\ other2 = other

(***************************************************************************)
(* C14: rootSpanEnd(s) (resp. orphanEnd(s)) removes s from the root (resp. *)
(* orphan) set; a second call for the same span, or a call for a span not  *)
(* in that set, leaves both sets as they are.                              *)
(***************************************************************************)
SpanEndIdempotent ==
  [][\A t \in Threads :
       /\ (pc[t] = "rse_del" /\ pc'[t] = "idle") =>
            /\ EndsOnly(spArg[t], spans, spans', orphans, orphans')
            /\ spArg[t] \notin spans => spans' = spans
       /\ (pc[t] = "oe_del" /\ pc'[t] = "idle") =>
            /\ EndsOnly(spArg[t], orphans, orphans', spans, spans')
            /\ spArg[t] \notin orphans => orphans' = orphans]_vars

\* a rootSpanEnd has returned for a span that had ended before or had never
\* started, a root and an orphan still live
SpanEndIdempotentWitness ==
  \E t \in Threads, s \in SpanPool :
    /\ pc[t] = "idle" /\ lastOp[t] = "rootSpanEnd"
    /\ life[s] = "bad"
    /\ s \notin spans /\ s \notin orphans
    /\ spans # {} /\ orphans # {}

-----------------------------------------------------------------------------
\* All the operations of the Registry, running concurrently

AllThreads == {"t1", "t2"}
AllNames == {"a"}
AllCallbacks == {"cb1"}
AllTraces == {"tr1"}
AllPool == {s \in SpanPool : s.addr = 1}

\* thread t takes the next step of the operation it is in
Continue(t) ==
  \/ PackageNamedLock(t)
  \/ PackageNamedGet(t)
  \/ PackageNamedNew(t)
  \/ PackageNamedReturn(t)
  \/ ScopesLock(t)
  \/ ScopesCopy(t)
  \/ ScopesSort(t)
  \/ ScopesVisit(t)
  \/ ObserveTraceLoad(t)
  \/ ObserveTraceInvoke(t)
  \/ ObserveTracesLock(t)
  \/ ObserveTracesRegister(t)
  \/ ObserveTracesUpdate(t)
  \/ ObserveTracesReturn(t)
  \/ CancelLock(t)
  \/ CancelDelete(t)
  \/ CancelUpdate(t)
  \/ CancelReturn(t)
  \/ rootSpanStartAdd(t)
  \/ rootSpanEndDelete(t)
  \/ orphanedSpanAdd(t)
  \/ orphanEndDelete(t)
  \/ RootSpansCopySpans(t)
  \/ RootSpansLockOrphans(t)
  \/ RootSpansCopyOrphans(t)
  \/ RootSpansSort(t)
  \/ RootSpansVisit(t)

\* thread t has returned from an operation: its locals are gone
Rest(t) ==
  /\ pc[t] = "idle"
  /\ lastOp[t] # "none"
  /\ lastOp' = [lastOp EXCEPT ![t] = "none"]
  /\ pnName' = [pnName EXCEPT ![t] = ""]
  /\ pnS' = [pnS EXCEPT ![t] = NilScope]
  /\ scC' = [scC EXCEPT ![t] = <<>>]
  /\ scIdx' = [scIdx EXCEPT ![t] = 0]
  /\ scBefore' = [scBefore EXCEPT ![t] = {}]
  /\ cbArg' = [cbArg EXCEPT ![t] = ""]
  /\ cbId' = [cbId EXCEPT ![t] = -1]
  /\ trArg' = [trArg EXCEPT ![t] = ""]
  /\ watcher' = [watcher EXCEPT ![t] = NilWatcher]
  /\ calls' = [calls EXCEPT ![t] = <<>>]
  /\ pubAtBegin' = [pubAtBegin EXCEPT ![t] = EmptyMap]
  /\ hist' = [hist EXCEPT ![t] = {}]
  /\ quiet' = [quiet EXCEPT ![t] = FALSE]
  /\ repeat' = [repeat EXCEPT ![t] = FALSE]
  /\ spArg' = [spArg EXCEPT ![t] = NoSpan]
  /\ ForgetRootSpans(t)
  /\ fresh' = [fresh EXCEPT ![t] = FALSE]
  /\ seen' = [seen EXCEPT !.trail[t] = <<>>]
  /\ UNCHANGED <<pc, scopeMtx, scopes, scopeObjs, returned, watchRegVars,
                 cancels, published, cancelRan, cancelDone, spanRegVars, life,
                 propVars>>

\* a thread enters an operation with the locals of its last one gone, takes
\* the next step of the operation it is in, or lets its locals go
NextAll ==
  \E t \in AllThreads :
    \/ \E n \in AllNames : lastOp[t] = "none" /\ PackageNamedCall(t, n)
    \/ lastOp[t] = "none" /\ ScopesCall(t)
    \/ \E tr \in AllTraces : lastOp[t] = "none" /\ ObserveTraceCall(t, tr)
    \/ \E cb \in AllCallbacks : lastOp[t] = "none" /\ ObserveTracesCall(t, cb)
    \/ \E id \in cancels : lastOp[t] = "none" /\ CancelCall(t, id)
    \/ \E s \in AllPool :
         lastOp[t] = "none" /\ life[s] = "new" /\ rootSpanStartLock(t, s)
    \/ \E s \in AllPool :
         lastOp[t] = "none" /\ life[s] = "root" /\ rootSpanEndLock(t, s)
    \/ \E s \in AllPool :
         lastOp[t] = "none" /\ life[s] = "new" /\ orphanedSpanLock(t, s)
    \/ \E s \in AllPool :
         lastOp[t] = "none" /\ life[s] = "orphan" /\ orphanEndLock(t, s)
    \/ lastOp[t] = "none" /\ RootSpansLockSpans(t)
    \/ Continue(t)
    \/ Rest(t)

SpecAll == Init /\ [][NextAll]_vars

\* a goroutine inside an operation is scheduled again and again, and one
\* that waits for a mutex gets it once it has been free often enough
SpecAllFair == SpecAll /\ \A t \in AllThreads : SF_vars(Continue(t))

\* the mutexes thread t holds
Held(t) ==
  {m \in {"watcherMtx", "scopeMtx", "spanMtx", "orphanMtx"} :
     t = (CASE m = "watcherMtx" -> watcherMtx
            [] m = "scopeMtx" -> scopeMtx
            [] m = "spanMtx" -> spanMtx
            [] m = "orphanMtx" -> orphanMtx)}

\* thread t is where a user callback runs: the cb(s) of Scopes, the cb(s) of
\* RootSpans, the watcher of observeTrace
AtCallback(t) == pc[t] \in {"sc_visit", "rs_visit", "ob_call"}

(***************************************************************************)
(* C13: where a visit callback of Scopes or RootSpans (and so of Funcs,    *)
(* Stats and AllSpans, which call them) or a trace watcher runs, the       *)
(* thread holds none of the four mutexes, so a Registry operation the      *)
(* callback enters is not kept waiting by its own thread.                  *)
(***************************************************************************)
NoMutexInCallback ==
  \A t \in Threads : AtCallback(t) => Held(t) = {}

\* a Scopes callback, a RootSpans callback or a watcher is about to run in one
\* thread while the other holds a mutex
NoMutexInCallbackWitness ==
  \E t, u \in AllThreads :
    /\ AtCallback(t)
    /\ Held(u) # {}
    /\ \E v \in AllThreads : pc[v] = "sc_visit"
    /\ traceWatchers # EmptyMap

(***************************************************************************)
(* C18: no operation takes one of the four mutexes while it holds another; *)
(* no thread ever holds two, and every operation that has begun, among any *)
(* operations running concurrently, completes.                             *)
(***************************************************************************)
NoLockOrderCycle ==
  /\ [](\A t \in Threads : Cardinality(Held(t)) <= 1)
  /\ \A t \in AllThreads : (pc[t] # "idle") ~> (pc[t] = "idle")

\* one thread waits for a mutex the other holds
NoLockOrderCycleWitness ==
  \E t, u \in AllThreads :
    /\ pc[t] = "rs_lock" /\ orphanMtx = u
    /\ pc[u] = "oe_del"

-----------------------------------------------------------------------------
\* AllSpans: RootSpans with walkSpan as its callback

\* the children of the live spans, by address: span 1 has two children, one
\* of them with a child of its own; span 3 has one child
Kids(a) ==
  CASE a = 1 -> {11, 12}
    [] a = 11 -> {13}
    [] a = 3 -> {14}
    [] OTHER -> {}

\* the spans s.Children visits
ChildSet(s) == {Span(a, s.f, a, TRUE, s.id, s.trace) : a \in Kids(s.addr)}
\* s.Children(cb): the children of s in one order or another
Children(s) == SetOrders(ChildSet(s))

RECURSIVE walkSpanPostOrder(_)
RECURSIVE walkSpan(_)
RECURSIVE walkEach(_, _)
\* the calls of cb made for the spans of seq, one after the other, each
\* walked by walk1 (1: walkSpan, 2: the walk that calls cb last)
walkEach(seq, walk1) ==
  IF seq = <<>> THEN {<<>>}
  ELSE {a \o b :
          a \in (IF walk1 = 1 THEN walkSpan(Head(seq))
                 ELSE walkSpanPostOrder(Head(seq))),
          b \in walkEach(Tail(seq), walk1)}

\* a walkSpan that calls cb(s) after it has walked the children
walkSpanPostOrder(s) ==
  {w \o <<s>> : w \in UNION {walkEach(o, 2) : o \in Children(s)}}

\* walkSpan(s, cb): cb(s), then walkSpan(c, cb) for every child c
walkSpan(s) ==
  {<<s>> \o w : w \in UNION {walkEach(o, 1) : o \in Children(s)}}

\* the next cb(s) of RootSpans, cb being func(s) { walkSpan(s, cb) }
AllSpansVisit(t) ==
  /\ RootSpansNext(t)
  /\ \E w \in walkSpan(rsSorted[t][rsIdx[t] + 1]) :
       walk' = [walk EXCEPT ![t] = @ \o w]
  /\ UNCHANGED propVars

WalkPool == {s \in SpanPool : s.addr # 2}

NextWalk ==
  \/ \E t \in Starters :
       \/ \E s \in WalkPool : life[s] = "new" /\ rootSpanStartLock(t, s)
       \/ rootSpanStartAdd(t)
       \/ \E s \in WalkPool : life[s] = "root" /\ rootSpanEndLock(t, s)
       \/ rootSpanEndDelete(t)
       \/ \E s \in WalkPool : life[s] = "new" /\ orphanedSpanLock(t, s)
       \/ orphanedSpanAdd(t)
       \/ \E s \in WalkPool : life[s] = "orphan" /\ orphanEndLock(t, s)
       \/ orphanEndDelete(t)
  \/ RootSpansLockSpans(Walker)
  \/ RootSpansCopySpans(Walker)
  \/ RootSpansLockOrphans(Walker)
  \/ RootSpansCopyOrphans(Walker)
  \/ RootSpansSort(Walker)
  \/ AllSpansVisit(Walker)

SpecWalk == Init /\ [][NextWalk]_vars

\* a span and everything reachable from it through child links
RECURSIVE Desc(_)
Desc(s) == {s} \cup UNION {Desc(c) : c \in ChildSet(s)}

(***************************************************************************)
(* C16: AllSpans visits the root and orphan spans in the order of          *)
(* RootSpans, each span before its descendants and with its whole subtree  *)
(* right after it, before the next root or orphan span; every span         *)
(* reachable from a span of the snapshot through child links is visited    *)
(* exactly once.                                                           *)
(***************************************************************************)
AllSpansPreOrder ==
  \A t \in Threads :
    Sorted(t) =>
      LET w == walk[t]
          roots == Visited(t)
      IN  /\ \A i, j \in DOMAIN w : w[i] = w[j] => i = j
          /\ Range(w) = UNION {Desc(r) : r \in Range(roots)}
          /\ \A i \in DOMAIN w :
               {j \in DOMAIN w : w[j] \in Desc(w[i])}
                 = i..(i + Cardinality(Desc(w[i])) - 1)
          /\ \A i, j \in DOMAIN roots :
               i < j => \E k, l \in DOMAIN w :
                          w[k] = roots[i] /\ w[l] = roots[j] /\ k < l

\* an AllSpans call has returned: it walked the span with a grandchild, then
\* an orphan with a child, six spans and more
AllSpansPreOrderWitness ==
  /\ Returned(Walker)
  /\ Len(walk[Walker]) >= 6
  /\ \E i, j \in DOMAIN walk[Walker] :
       /\ i < j
       /\ walk[Walker][i].addr = 13
       /\ walk[Walker][j].addr = 14
       /\ walk[Walker][j - 1] \in rsOrphans[Walker]

=============================================================================
